---- MODULE Spec2Model ----
(***************************************************************************)
(* State-machine model of distil.modeling.forest.ForestCV: construction,   *)
(* fit (the per-iteration fit procedure with its parallel grid search and  *)
(* refit, or the fixed-hyperparameter path) and predict (vote or mean),     *)
(* and of the part of EnsembleForestPrimitive that configures it.          *)
(***************************************************************************)
EXTENDS Integers, Sequences, FiniteSets, TLC

\* ------------------------------------------------------------------ bounds
MaxRows     == 2    \* rows of a training set
MaxLabel    == 2    \* target values are 1..MaxLabel
MaxFits     == 2    \* num_fits ranges over 0..MaxFits
MaxCalls    == 2    \* fit calls per behaviour
MaxLeaf     == 2    \* values of min_samples_leaf in a grid
MaxFitness  == 2    \* OOB fitness values are 1..MaxFitness
MaxJobs     == 2    \* outer concurrency degree is 1..MaxJobs
MaxPredRows == 2    \* rows of a predict input
MaxOffset   == 1    \* configurations of the sampler
MaxSubset   == 1    \* subsample bounds are 1..MaxSubset + 1
MaxFrame    == 3    \* rows of a frame passed to a primitive, and its labels

\* ------------------------------------------------- defaults of ForestCV
DefaultSubset      == 100000
DefaultFinalSubset == 1500000
DefaultNumFits     == 1
DefaultJobs        == 64

\* ---------------------------------------- TextClassifierPrimitive
FAST_FIT_ROWS == 15

\* ------------------------------------------------------------------ values
None    == <<>>
Some(v) == <<v>>

Labels  == 1..MaxLabel
Fitness == 1..MaxFitness
Failure == 0            \* an evaluation or a fit that raises

\* distil.modeling.metrics: the metric families ForestCV imports, and the
\* metric names a caller passes, one of them of neither family
classification_metrics == {"f1Macro"}
regression_metrics     == {"meanSquaredError"}
MetricNames == classification_metrics \cup regression_metrics
                  \cup {"normalizedMutualInformation"}

\* the random seeds a caller passes (None is the default)
RandomSeeds == {None, Some(0)}

SetKey(d, k, v) == [x \in (DOMAIN d) \cup {k} |-> IF x = k THEN v ELSE d[x]]

Range(s) == {s[i] : i \in DOMAIN s}

RECURSIVE SumSeq(_)
SumSeq(s) == IF s = <<>> THEN 0 ELSE s[1] + SumSeq(Tail(s))

RECURSIVE GCD(_, _)
GCD(a, b) == IF b = 0 THEN a ELSE GCD(b, a % b)

\* the training sets a caller passes: X holds one distinct feature row per
\* sample (row i has feature value i), y one target per row
TrainingSets ==
    { [X |-> [i \in 1..Len(y) |-> i], y |-> y] :
        y \in UNION { [1..n -> Labels] : n \in 1..MaxRows } }

\* the explicit hyperparameter grids a caller passes as param_grid
ParamGrids ==
    { [estimator |-> e, min_samples_leaf |-> [i \in 1..k |-> i]] :
        e \in { <<"RandomForest">>, <<"ExtraTrees", "RandomForest">> },
        k \in 0..MaxLeaf }

\* the grids of one family, and those of two families with at most one
\* leaf size
SeedGrids ==
    { g \in ParamGrids : Len(g.estimator) = 1 \/ Len(g.min_samples_leaf) <= 1 }

\* the fixed hyperparameters a caller passes as hyperparams
FixedParams == { [estimator |-> "RandomForest", min_samples_leaf |-> 1] }

\* the estimator names a caller passes, one of them no family of AnyForest
Families == {"RandomForest", "ExtraTrees", "GradientBoosting"}

\* hyperparameters and one-point or two-point grids over those names
FactoryParams == { [estimator |-> e, min_samples_leaf |-> 1] : e \in Families }

FactoryGrids ==
    { [estimator |-> es, min_samples_leaf |-> <<1>>] :
        es \in { <<e>> : e \in Families } \cup { <<"ExtraTrees", "GradientBoosting">> } }

\* a missing value of a dataframe and the empty string (features and
\* targets are 1 and above, the codes of pd.factorize -1 and above)
NaN         == -2
EmptyString == -3

\* a dataframe of one column with the given index; row is history, the
\* position the row had when the frame was made
IndexedFrame(vals, index) ==
    [k \in 1..Len(vals) |-> [ix |-> index[k], v |-> vals[k], row |-> k]]

\* a dataframe of one column with the default index 0..n-1
Frame(vals) == IndexedFrame(vals, [k \in 1..Len(vals) |-> k - 1])

\* the inputs and outputs a caller passes to set_training_data: row k has
\* the feature value k or none, and a target or none
RawData ==
    UNION { { [inputs  |-> Frame([k \in 1..n |-> IF k \in miss THEN NaN ELSE k]),
               outputs |-> Frame(ys)] :
                miss \in SUBSET (1..n), ys \in [1..n -> Labels \cup {NaN}] } :
            n \in 1..MaxRows }

\* the orders of the index labels 0..n-1
IndexOrders(n) ==
    { p \in [1..n -> 0..(n - 1)] : \A i, j \in 1..n : p[i] = p[j] => i = j }

\* the values of a target column: labels, missing values, empty strings
TargetValues == (1..MaxFrame) \cup {NaN, EmptyString}

\* inputs and outputs that carry one index, any order of the labels
\* 0..n-1: row k has the feature value k or none, and any target value
IndexedData ==
    UNION { { [inputs  |-> IndexedFrame([k \in 1..n |-> IF k \in miss THEN NaN ELSE k], ix),
               outputs |-> IndexedFrame(ys, ix)] :
                miss \in SUBSET (1..n), ix \in IndexOrders(n),
                ys \in [1..n -> TargetValues] } :
            n \in 1..MaxFrame }

\* training frames of every size whose rows are complete and of one class,
\* and the frames a caller passes to a produce-type call
ProtocolData ==
    { D \in RawData : /\ \A k \in DOMAIN D.inputs : D.inputs[k].v # NaN
                      /\ \A k \in DOMAIN D.outputs : D.outputs[k].v = 1 }

ProduceInputs == { D.inputs : D \in ProtocolData }

\* complete training frames with the default index and any labels
LabelData ==
    UNION { { [inputs  |-> Frame([k \in 1..n |-> k]), outputs |-> Frame(ys)] :
                ys \in [1..n -> 1..MaxFrame] } :
            n \in 1..MaxFrame }

\* the frames passed to a text classifier: row k holds text k and target k
TextData ==
    { [inputs  |-> Frame([k \in 1..n |-> k]), outputs |-> Frame([k \in 1..n |-> k])] :
        n \in 1..(FAST_FIT_ROWS + MaxRows) }

\* the hyperparameters a text classifier is constructed with
TextHyperparams == [metric : MetricNames, fast : BOOLEAN]

\* the hyperparameters a primitive is constructed with
PrimitiveHyperparams ==
    [metric : classification_metrics \cup regression_metrics,
     small_dataset_threshold : 0..MaxRows,
     small_dataset_fits : 0..MaxFits,
     large_dataset_fits : 0..MaxFits]

VARIABLES
    target_metric, \* ForestCV.target_metric
    mode,          \* ForestCV.mode
    num_fits,      \* ForestCV.num_fits
    param_grid,    \* ForestCV.param_grid: None or Some(grid)
    params,        \* ForestCV.params: None or Some(hyperparameters)
    random_seed,   \* ForestCV.random_seed
    subset,        \* ForestCV.subset
    final_subset,  \* ForestCV.final_subset
    outer_jobs,    \* ForestCV.outer_jobs
    sampler,       \* the sampler's configuration
    oracle,        \* the forest library: None, or Some(what a model with a
                   \* fixed random state gives on the data of the run:
                   \* eval, the outcome of fitting and scoring each grid
                   \* point; fit, whether fitting a model returns; predict,
                   \* what the fitted model predicts for each input row)
    _models,       \* ForestCV._models
    _y_train,      \* ForestCV._y_train: None or Some(y)
    results,       \* ForestCV.results: None (attribute unset) or Some(list)
    best_params,   \* ForestCV.best_params: None (unset) or Some(params)
    best_fitness,  \* ForestCV.best_fitness: None (unset) or Some(fitness)
    pc,            \* position of the caller: "idle", "iterate", "search"
    cur,           \* history: the latest fit call, None or Some([X, y, nf,
                   \* before]): its arguments, the num_fits in force and the
                   \* number of members held when it was made
    acc,           \* the members the running fit call has built so far
    work,          \* the parallel map's table, one entry per grid point
    order,         \* history of the latest search: how many evaluations have
                   \* completed, and whether one completed before an
                   \* evaluation of an earlier grid point
    ncalls,        \* history: the number of fit calls so far
    status,        \* history: how the latest fit call ended
    sample,        \* history: the search subsamples of the latest fit call
    out,           \* outcome of the latest predict call or details read
    hyperparams,   \* EnsembleForestPrimitive.hyperparams (None: the
                   \* orchestrator is used without a primitive)
    _inputs,       \* EnsembleForestPrimitive._inputs
    _outputs,      \* EnsembleForestPrimitive._outputs
    label_map,     \* EnsembleForestPrimitive.label_map
    _needs_fit,    \* EnsembleForestPrimitive._needs_fit
    raw,           \* history: the frames passed to the latest
                   \* set_training_data call, as the caller holds them after
                   \* the call
    saved,         \* the state __getstate__ returned last, None or
                   \* Some(state); live tells whether state["models"] is the
                   \* model object this primitive holds, or another object
    _model         \* TextClassifierPrimitive._model: None while it is not
                   \* trained, or Some([X, y]), the rows its fit was given

config == <<target_metric, mode, param_grid, random_seed, subset, final_subset,
            outer_jobs, sampler, oracle>>
prim   == <<hyperparams, _inputs, _outputs, label_map, _needs_fit, raw, saved,
            _model>>
hist   == <<ncalls, status, order>>
search == <<results, best_params, best_fitness>>
vars   == <<target_metric, mode, num_fits, param_grid, params, random_seed,
            subset, final_subset, outer_jobs, sampler, oracle, _models, _y_train,
            results, best_params, best_fitness, pc, cur, acc, work, order,
            ncalls, status, sample, out, hyperparams, _inputs, _outputs,
            label_map, _needs_fit, raw, saved, _model>>

\* ------------------------------------------------- collaborators (library)
\* sklearn.model_selection.ParameterGrid: the cross-product of the value
\* lists, keys in sorted order, the last key varying fastest
ParameterGrid(g) ==
    LET E == Len(g.estimator)
        L == Len(g.min_samples_leaf)
    IN  [k \in 1..(E * L) |->
            [estimator        |-> g.estimator[((k - 1) \div L) + 1],
             min_samples_leaf |-> g.min_samples_leaf[((k - 1) % L) + 1]]]

\* Python's sorted(xs, key=fitness): stable, ascending
RECURSIVE InsertByFitness(_, _)
InsertByFitness(s, x) ==
    IF s = <<>> THEN <<x>>
    ELSE IF s[Len(s)].fitness <= x.fitness THEN Append(s, x)
    ELSE Append(InsertByFitness(SubSeq(s, 1, Len(s) - 1), x), s[Len(s)])

RECURSIVE sorted(_)
sorted(s) ==
    IF s = <<>> THEN <<>>
    ELSE InsertByFitness(sorted(SubSeq(s, 1, Len(s) - 1)), s[Len(s)])

\* pandas.unique: the distinct values in order of first occurrence
RECURSIVE unique(_)
unique(s) ==
    IF s = <<>> THEN <<>>
    ELSE LET u == unique(SubSeq(s, 1, Len(s) - 1))
         IN  IF s[Len(s)] \in Range(u) THEN u ELSE Append(u, s[Len(s)])

\* numpy mean of integers, as an exact fraction in lowest terms
mean(vals) ==
    LET t == SumSeq(vals)
        n == Len(vals)
        g == GCD(IF t < 0 THEN -t ELSE t, n)
    IN  [num |-> t \div g, den |-> n \div g]

\* ------------------------------------------- distil.utils, modeling.helpers
\* maybe_subset(X, y, n): X, y unchanged when there are at most n rows,
\* otherwise n rows chosen by the sampler's fixed configuration, the same
\* rows of X and of y
SelectRows(N, n) == [k \in 1..n |-> ((sampler + k - 1) % N) + 1]

maybe_subset(X, y, n) ==
    IF Len(X) <= n THEN [X |-> X, y |-> y]
    ELSE LET sel == SelectRows(Len(X), n)
         IN  [X |-> [k \in 1..n |-> X[sel[k]]], y |-> [k \in 1..n |-> y[sel[k]]]]

\* tiebreaking_vote_pre(preds, labels): preds is a models x rows matrix; for
\* each row the label of `labels` with the most votes, the earliest such
\* label in `labels` when several tie
VoteCount(preds, r, l) == Cardinality({m \in DOMAIN preds : preds[m][r] = l})

tiebreaking_vote_pre(preds, labels) ==
    [r \in DOMAIN preds[1] |->
        LET top == CHOOSE i \in DOMAIN labels :
                     /\ \A j \in DOMAIN labels :
                            VoteCount(preds, r, labels[j]) <= VoteCount(preds, r, labels[i])
                     /\ \A j \in 1..(i - 1) :
                            VoteCount(preds, r, labels[j]) < VoteCount(preds, r, labels[i])
        IN  labels[top]]

\* ------------------------------------------------------------- AnyForest
\* AnyForest.__possible_model_cls
possible_model_cls ==
    [p \in { <<"regression", "ExtraTrees">>, <<"regression", "RandomForest">>,
             <<"classification", "ExtraTrees">>,
             <<"classification", "RandomForest">> } |->
        IF p = <<"regression", "ExtraTrees">> THEN "ExtraTreesRegressor"
        ELSE IF p = <<"regression", "RandomForest">> THEN "RandomForestRegressor"
        ELSE IF p = <<"classification", "ExtraTrees">> THEN "ExtraTreesClassifier"
        ELSE "RandomForestClassifier"]

\* AnyForest.__init__(mode, estimator, **kwargs): the assert of line 33 and
\* the lookup of line 37
AnyForest_init_fallback(md, estimator) ==
    IF <<md, estimator>> \in DOMAIN possible_model_cls
    THEN [raised |-> FALSE, model_cls |-> possible_model_cls[<<md, estimator>>]]
    ELSE [raised |-> FALSE, model_cls |-> possible_model_cls[<<md, "RandomForest">>]]

AnyForest_init(md, estimator) ==
    IF <<md, estimator>> \in DOMAIN possible_model_cls
    THEN [raised |-> FALSE, model_cls |-> possible_model_cls[<<md, estimator>>]]
    ELSE [raised |-> TRUE]

\* AnyForest(mode, estimator, **kwargs).fit(X, y): the fitted model. The
\* estimator is a named parameter, so that self.params (line 36), which is
\* what the library class is given (line 45), holds every other keyword
\* and never the estimator; born is history, the fit call and the iteration
\* that built it
AnyForest(md, kwargs, X, y, born) ==
    [mode |-> md, model_cls |-> AnyForest_init(md, kwargs.estimator).model_cls,
     params |-> [k \in DOMAIN kwargs \ {"estimator"} |-> kwargs[k]],
     X |-> X, y |-> y, born |-> born]

\* what AnyForest.predict can return for one row: a class seen in training,
\* or for regression a value within the range of the training targets
Predictions(m) ==
    IF m.mode = "classification" THEN Range(m.y)
    ELSE { v \in Labels : /\ \E a \in Range(m.y) : a <= v
                          /\ \E b \in Range(m.y) : v <= b }

\* -------------------------------------------------------------- ForestCV
\* __init__ lines 87-92: the mode of the metric's family, or the raise
init_mode_default(metric) ==
    IF metric \in classification_metrics
    THEN [raised |-> FALSE, mode |-> "classification"]
    ELSE [raised |-> FALSE, mode |-> "regression"]

init_mode(metric) ==
    IF metric \in classification_metrics
    THEN [raised |-> FALSE, mode |-> "classification"]
    ELSE IF metric \in regression_metrics
    THEN [raised |-> FALSE, mode |-> "regression"]
    ELSE [raised |-> TRUE]

\* _eval_grid_point line 143: the random state the point's model is given
eval_random_state_none(point, seed) == None

eval_random_state_per_point(point, seed) == Some(point.min_samples_leaf)

eval_random_state(point, seed) == seed

\* _eval_grid_point(params, X, y, random_seed): f is what fitting and scoring
\* the point gives, a fitness or Failure (model.fit or the metric raises);
\* the construction of the model may raise too; nothing is caught
_eval_grid_point_swallow(point, seed, f) ==
    [raised |-> FALSE,
     params |-> SetKey(point, "random_state", seed),
     fitness |-> IF f = Failure THEN 1 ELSE f]

_eval_grid_point_crosstalk(point, seed, f) ==
    IF AnyForest_init(mode, point.estimator).raised \/ f = Failure
    THEN [raised |-> TRUE]
    ELSE [raised  |-> FALSE,
          params  |-> SetKey(point, "random_state", eval_random_state(point, seed)),
          fitness |-> IF Cardinality({i \in DOMAIN work : work[i].st = "running"}) > 1
                      THEN MaxFitness ELSE f]

_eval_grid_point(point, seed, f) ==
    IF AnyForest_init(mode, point.estimator).raised \/ f = Failure
    THEN [raised |-> TRUE]
    ELSE [raised  |-> FALSE,
          params  |-> SetKey(point, "random_state", eval_random_state(point, seed)),
          fitness |-> f]

\* _fit line 157: the search-phase subsample
search_subset_final(X, y) == maybe_subset(X, y, final_subset)

search_subset(X, y) == maybe_subset(X, y, subset)

\* _fit line 169: the refit subsample
refit_subset(X, y) == maybe_subset(X, y, final_subset)

\* _fit line 161: self.results is the parallel map's result list
fit_results_sorted(res) == sorted(res)

fit_results(res) == res

\* _fit line 165: sorted(self.results, key=fitness)[-1]
best_run_first(res) == sorted(res)[1]

best_run_earliest(res) ==
    res[CHOOSE i \in DOMAIN res :
            /\ \A j \in DOMAIN res : res[j].fitness <= res[i].fitness
            /\ \A j \in 1..(i - 1) : res[j].fitness < res[i].fitness]

best_run(res) == sorted(res)[Len(res)]

\* predict line 129: pd.unique(np.vstack(self._y_train).squeeze())
RECURSIVE np_unique(_)
np_unique(y) ==
    IF y = <<>> THEN <<>>
    ELSE LET lo == CHOOSE a \in Range(y) : \A b \in Range(y) : a <= b
         IN  <<lo>> \o np_unique(SelectSeq(y, LAMBDA v : v # lo))

predict_labels(y) == unique(y)

\* predict line 130
predict_classification(preds, labels) == tiebreaking_vote_pre(preds, labels)

\* predict line 132: np.stack(preds).mean(axis=0)
predict_regression_first(preds) ==
    [r \in DOMAIN preds[1] |-> mean(<<preds[1][r]>>)]

predict_regression(preds) ==
    [r \in DOMAIN preds[1] |-> mean([m \in DOMAIN preds |-> preds[m][r]])]

\* fit line 117: the targets recorded
fit_y_train_once(X, y) == IF _y_train = None THEN Some(y) ELSE _y_train

fit_y_train(X, y) == Some(y)

\* fit line 118: self._models while the comprehension is still running, and
\* once it has produced `built`
fit_running_partial(built) == built

fit_running(built) == _models

fit_models_extend(built) == _models \o built

fit_models(built) == built

\* ----------------------------------------------- EnsembleForestPrimitive
\* pandas: the values and the index of a frame, dropna, .loc[index]
Values(df) == [k \in DOMAIN df |-> df[k].v]
Index(df)  == [k \in DOMAIN df |-> df[k].ix]
dropna(df) == SelectSeq(df, LAMBDA r : r.v # NaN)
notempty(df) == SelectSeq(df, LAMBDA r : r.v # EmptyString)
loc(df, index) ==
    [k \in DOMAIN index |-> df[CHOOSE j \in DOMAIN df : df[j].ix = index[k]]]

\* pd.factorize: the distinct values other than NaN in order of first
\* occurrence, and for every value its code, -1 for NaN
factorize(vals) ==
    LET uniques == unique(SelectSeq(vals, LAMBDA v : v # NaN))
    IN  [uniques |-> uniques,
         codes   |-> [k \in DOMAIN vals |->
                        IF vals[k] = NaN THEN -1
                        ELSE (CHOOSE c \in DOMAIN uniques : uniques[c] = vals[k]) - 1]]

\* set_training_data lines 192-196: the number of forests to fit
dataset_fits_at_least(rows, hp) ==
    IF rows >= hp.small_dataset_threshold
    THEN hp.large_dataset_fits
    ELSE hp.small_dataset_fits

dataset_fits(rows, hp) ==
    IF rows > hp.small_dataset_threshold
    THEN hp.large_dataset_fits
    ELSE hp.small_dataset_fits

\* -------------------------------------------------------------- actions
NoPredict == [st |-> "none"]

NoOrder == [done |-> 0, swapped |-> FALSE]

Grid == ParameterGrid(param_grid[1])

\* history tag of the member built next: the call, the iteration, and the
\* num_fits the call runs with
Born == [call |-> ncalls, iter |-> Len(acc) + 1, of |-> num_fits]

\* the orchestrator is used directly, not through a primitive
NoPrimitive ==
    /\ hyperparams = None
    /\ _inputs = None
    /\ _outputs = None
    /\ label_map = None
    /\ _needs_fit = FALSE
    /\ raw = None
    /\ saved = None
    /\ _model = None

\* what every construction that returns leaves behind, whatever its
\* arguments
Unfit ==
    /\ _models = <<>>
    /\ _y_train = None
    /\ results = None
    /\ best_params = None
    /\ best_fitness = None
    /\ pc = "idle"
    /\ cur = None
    /\ acc = <<>>
    /\ work = <<>>
    /\ order = NoOrder
    /\ ncalls = 0
    /\ status = "none"
    /\ sample = <<>>
    /\ out = NoPredict

\* __init__ raised at line 92: no orchestrator exists, nothing can be
\* called on it
NoOrchestrator ==
    /\ mode = "none"
    /\ num_fits = 0
    /\ param_grid = None
    /\ params = None
    /\ random_seed = None
    /\ subset = 0
    /\ final_subset = 0
    /\ outer_jobs = 0
    /\ _models = <<>>
    /\ _y_train = None
    /\ results = None
    /\ best_params = None
    /\ best_fitness = None
    /\ pc = "raised"
    /\ cur = None
    /\ acc = <<>>
    /\ work = <<>>
    /\ order = NoOrder
    /\ ncalls = 0
    /\ status = "none"
    /\ sample = <<>>
    /\ out = NoPredict

\* ForestCV.__init__ with any metric name (a recognised metric fixes the
\* mode, another one raises), every size bound and the concurrency degree at
\* their defaults, grid_search False with fixed hyperparameters or without
\* them (the defaults), or grid_search True with a grid of at most one point
Init ==
    /\ target_metric \in MetricNames
    /\ sampler = 0
    /\ oracle = None
    /\ NoPrimitive
    /\ IF init_mode(target_metric).raised
       THEN NoOrchestrator
       ELSE /\ mode = init_mode(target_metric).mode
            /\ num_fits = DefaultNumFits
            /\ \/ param_grid = None /\ params \in {None} \cup {Some(h) : h \in FixedParams}
               \/ /\ param_grid \in {Some(g) : g \in ParamGrids}
                  /\ Len(ParameterGrid(param_grid[1])) <= 1
                  /\ params = None
            /\ random_seed = None
            /\ subset = DefaultSubset
            /\ final_subset = DefaultFinalSubset
            /\ outer_jobs = DefaultJobs
            /\ Unfit

\* the owner of the orchestrator assigns num_fits between calls
set_num_fits(n) ==
    /\ pc = "idle"
    /\ num_fits # n
    /\ num_fits' = n
    /\ UNCHANGED <<config, prim, params, _models, _y_train, search, pc, cur, acc, work,
                   hist, sample, out>>

\* fit, entry: the targets are recorded, then the comprehension starts
fit_begin(T) ==
    /\ pc = "idle"
    /\ _y_train' = fit_y_train(T.X, T.y)
    /\ cur' = Some([X |-> T.X, y |-> T.y, nf |-> num_fits, before |-> Len(_models)])
    /\ acc' = <<>>
    /\ sample' = <<>>
    /\ ncalls' = ncalls + 1
    /\ status' = "running"
    /\ pc' = "iterate"
    /\ out' = NoPredict
    /\ UNCHANGED <<config, prim, num_fits, params, _models, search, work, order>>

\* _fit without a grid: the fixed hyperparameters, fitted on the subsample
\* the model the library builds for the hyperparameters p: its class and
\* its leaf size
LibraryKey(md, p) ==
    [model_cls |-> AnyForest_init(md, p.estimator).model_cls,
     min_samples_leaf |-> p.min_samples_leaf]

\* the same, of the fitted member m
MemberKey(m) ==
    [model_cls |-> m.model_cls, min_samples_leaf |-> m.params.min_samples_leaf]

\* the forest library: fitting the model of the hyperparameters p, which
\* hold a fixed random state, returns every time or raises every time
\* (f = Failure); an unseeded fit may do either
LibraryFits(p, f) ==
    (oracle # None /\ p.random_state # None) =>
        ((f # Failure) <=> oracle[1].fit[LibraryKey(mode, p)])

\* the forest library: a member fitted with a fixed random state predicts
\* the same value for the same input row every time; P[m][k] is what
\* member m predicts for row k
LibraryPredicts(P) ==
    oracle # None =>
        \A m \in DOMAIN _models :
            _models[m].params.random_state # None =>
                \A k \in DOMAIN P[m] :
                    P[m][k] = oracle[1].predict[MemberKey(_models[m])][k]

fit_direct(f) ==
    /\ pc = "iterate"
    /\ Len(acc) < num_fits
    /\ param_grid = None
    /\ LET s == search_subset(cur[1].X, cur[1].y)
       IN  /\ sample' = Append(sample, s)
           /\ IF params = None
              THEN \* item assignment on None raises
                   /\ pc' = "idle"
                   /\ status' = "raised:params"
                   /\ acc' = <<>>
                   /\ UNCHANGED <<params, _models>>
              ELSE LET current == SetKey(params[1], "random_state", random_seed)
                       built   == Append(acc,
                                    AnyForest(mode, SetKey(current, "n_jobs", outer_jobs),
                                              s.X, s.y, Born))
                   IN  /\ params' = Some(current)
                       /\ LibraryFits(current, f)
                       /\ IF AnyForest_init(mode, current.estimator).raised \/ f = Failure
                          THEN /\ pc' = "idle"
                               /\ status' = "raised:fit"
                               /\ acc' = <<>>
                               /\ UNCHANGED _models
                          ELSE /\ acc' = built
                               /\ _models' = fit_running(built)
                               /\ UNCHANGED <<pc, status>>
    /\ UNCHANGED <<config, prim, num_fits, _y_train, search, cur, work, order, ncalls, out>>

\* _fit with a grid: the subsample is drawn and every grid point is handed
\* to the parallel map
parmap_submit ==
    /\ pc = "iterate"
    /\ Len(acc) < num_fits
    /\ param_grid # None
    /\ sample' = Append(sample, search_subset(cur[1].X, cur[1].y))
    /\ work' = [i \in DOMAIN Grid |-> [st |-> "queued"]]
    /\ order' = NoOrder
    /\ pc' = "search"
    /\ UNCHANGED <<config, prim, num_fits, params, _models, _y_train, search, cur, acc,
                   ncalls, status, out>>

\* the forest library: fitting and scoring grid point i with a fixed random
\* state gives the same outcome f every time, an unseeded model any outcome
LibraryGives(i, random_state, f) ==
    (oracle # None /\ random_state # None) => f = oracle[1].eval[i]

Running == {i \in DOMAIN work : work[i].st = "running"}
Queued  == {i \in DOMAIN work : work[i].st = "queued"}

\* the parallel map dispatches the next point, in input order, to a free
\* worker
parmap_start ==
    /\ pc = "search"
    /\ Queued # {}
    /\ Cardinality(Running) < outer_jobs
    /\ LET i == CHOOSE q \in Queued : \A o \in Queued : q <= o
       IN  work' = [work EXCEPT ![i] = [st |-> "running"]]
    /\ UNCHANGED <<config, prim, num_fits, params, _models, _y_train, search, pc, cur,
                   acc, hist, sample, out>>

\* a worker finishes its point: the result takes the point's place in the
\* table, or the evaluation raised and the whole call raises
parmap_finish(i, f) ==
    /\ pc = "search"
    /\ i \in Running
    /\ LibraryGives(i, eval_random_state(Grid[i], random_seed), f)
    /\ LET r == _eval_grid_point(Grid[i], random_seed, f)
       IN  IF r.raised
           THEN /\ pc' = "idle"
                /\ status' = "raised:eval"
                /\ work' = <<>>
                /\ acc' = <<>>
                /\ UNCHANGED order
           ELSE /\ work' = [work EXCEPT ![i] =
                              [st |-> "done", raw |-> f,
                               res |-> [params |-> r.params, fitness |-> r.fitness]]]
                /\ order' = [done    |-> order.done + 1,
                              swapped |-> order.swapped \/ \E j \in Running : j < i]
                /\ UNCHANGED <<pc, status, acc>>
    /\ UNCHANGED <<config, prim, num_fits, params, _models, _y_train, search, cur,
                   ncalls, sample, out>>

\* _fit after the parallel map has returned: best run, then the refit
select_refit(f) ==
    /\ pc = "search"
    /\ \A i \in DOMAIN work : work[i].st = "done"
    /\ LET res == fit_results([i \in DOMAIN work |-> work[i].res])
       IN  /\ results' = Some(res)
           /\ work' = <<>>
           /\ IF res = <<>>
              THEN \* [-1] of an empty list raises
                   /\ pc' = "idle"
                   /\ status' = "raised:select"
                   /\ acc' = <<>>
                   /\ UNCHANGED <<best_params, best_fitness, _models>>
              ELSE LET b     == best_run(res)
                       s     == refit_subset(cur[1].X, cur[1].y)
                       built == Append(acc,
                                  AnyForest(mode, SetKey(b.params, "n_jobs", outer_jobs),
                                            s.X, s.y, Born))
                   IN  /\ best_params' = Some(b.params)
                       /\ best_fitness' = Some(b.fitness)
                       /\ LibraryFits(b.params, f)
                       /\ IF AnyForest_init(mode, b.params.estimator).raised \/ f = Failure
                          THEN /\ pc' = "idle"
                               /\ status' = "raised:refit"
                               /\ acc' = <<>>
                               /\ UNCHANGED _models
                          ELSE /\ pc' = "iterate"
                               /\ acc' = built
                               /\ _models' = fit_running(built)
                               /\ UNCHANGED status
    /\ UNCHANGED <<config, prim, num_fits, params, _y_train, cur, order, ncalls, sample, out>>

\* fit, exit: the comprehension has run num_fits iterations
fit_return ==
    /\ pc = "iterate"
    /\ Len(acc) = num_fits
    /\ _models' = fit_models(acc)
    /\ acc' = <<>>
    /\ pc' = "idle"
    /\ status' = "ok"
    /\ UNCHANGED <<config, prim, num_fits, params, _y_train, search, cur, work, order,
                   ncalls, sample, out>>

\* predict lines 128-132 on the stacked predictions P of at least one member
predict_value(P) ==
    IF mode = "classification"
    THEN IF Len(_y_train[1]) = 1
         THEN [st |-> "raised"]    \* squeeze leaves no axis to scan
         ELSE LET labels == predict_labels(_y_train[1])
              IN  [st |-> "ok", preds |-> P, labels |-> labels,
                   val |-> predict_classification(P, labels)]
    ELSE [st |-> "ok", preds |-> P, labels |-> <<>>,
          val |-> predict_regression(P)]

\* predict lines 126-132: with no member there is nothing to stack, and
\* np.vstack and np.stack raise
predict_out_empty(P) ==
    IF _models = <<>>
    THEN [st |-> "ok", preds |-> P, labels |-> <<>>, val |-> <<>>]
    ELSE predict_value(P)

predict_out(P) ==
    IF _models = <<>>
    THEN [st |-> "raised"]
    ELSE predict_value(P)

\* predict(X) on r rows; P[m][k] is what member m predicts for row k
predict(r, P) ==
    /\ pc = "idle"
    /\ \A m \in DOMAIN _models : \A k \in 1..r : P[m][k] \in Predictions(_models[m])
    /\ LibraryPredicts(P)
    /\ out' = predict_out(P)
    /\ UNCHANGED <<config, prim, num_fits, params, _models, _y_train, search, pc, cur,
                   acc, work, hist, sample>>

\* the details property: reading an attribute no search has set raises
details_unset_none ==
    [st |-> "ok", op |-> "details",
     val |-> [cv_score |-> best_fitness, best_params |-> best_params,
              num_fits |-> num_fits]]

details_value ==
    IF best_fitness = None \/ best_params = None
    THEN [st |-> "raised", op |-> "details"]
    ELSE [st |-> "ok", op |-> "details",
          val |-> [cv_score |-> Some(best_fitness[1]),
                   best_params |-> Some(best_params[1]),
                   num_fits |-> num_fits]]

details ==
    /\ pc = "idle"
    /\ out' = details_value
    /\ UNCHANGED <<config, prim, num_fits, params, _models, _y_train, search, pc, cur,
                   acc, work, hist, sample>>

\* predict_proba line 135 and feature_importances line 140: Q[m] is what
\* member m returns for the call; indexing an empty ensemble raises
first_member_last(op, Q) ==
    IF _models = <<>>
    THEN [st |-> "raised", op |-> op]
    ELSE [st |-> "ok", op |-> op, members |-> Q, val |-> Q[Len(Q)]]

first_member(op, Q) ==
    IF _models = <<>>
    THEN [st |-> "raised", op |-> op]
    ELSE [st |-> "ok", op |-> op, members |-> Q, val |-> Q[1]]

\* AnyForest.predict_proba line 52 on the member m, q being what the
\* library model gives: the library's regressors (lines 26-27) have no
\* predict_proba, and the attribute lookup raises
AnyForest_predict_proba(m, q) ==
    IF m.model_cls \in {"ExtraTreesRegressor", "RandomForestRegressor"}
    THEN [raised |-> TRUE, error |-> "AttributeError"]
    ELSE [raised |-> FALSE, val |-> q]

\* predict_proba lines 134-136: the call on the first member, whose raise
\* is not caught
predict_proba(Q) ==
    /\ pc = "idle"
    /\ out' = IF _models # <<>> /\ AnyForest_predict_proba(_models[1], Q[1]).raised
              THEN [st |-> "raised", op |-> "predict_proba"]
              ELSE first_member("predict_proba", Q)
    /\ UNCHANGED <<config, prim, num_fits, params, _models, _y_train, search, pc, cur,
                   acc, work, hist, sample>>

feature_importances(Q) ==
    /\ pc = "idle"
    /\ out' = first_member("feature_importances", Q)
    /\ UNCHANGED <<config, prim, num_fits, params, _models, _y_train, search, pc, cur,
                   acc, work, hist, sample>>

\* EnsembleForestPrimitive.set_training_data(inputs, outputs)
\* the orchestrator self._model as a state dictionary holds it: its
\* attributes and the history of its latest fit call
orchestrator ==
    [num_fits |-> num_fits, _models |-> _models, _y_train |-> _y_train,
     cur |-> cur, status |-> status]

\* __getstate__ line 129 puts the orchestrator itself into the state, not a
\* copy: while the state refers to the orchestrator this primitive holds,
\* whatever a call changes in the orchestrator is changed in the state
Shared ==
    saved' = IF saved # None /\ saved[1].live
             THEN Some([saved[1] EXCEPT !.models = orchestrator'])
             ELSE saved

set_training_data(inputs, outputs) ==
    /\ pc = "idle"
    /\ hyperparams # None
    /\ LET factor  == factorize(Values(outputs))
           binary  == Len(factor.uniques) <= 2
           coded   == IF binary THEN Frame(factor.codes) ELSE outputs
           kept    == dropna(notempty(coded))
           aligned == IF Len(coded) # Len(kept) THEN loc(inputs, Index(kept))
                      ELSE inputs
           clean   == dropna(aligned)
       IN  /\ label_map' = IF binary THEN Some(factor.uniques) ELSE label_map
           /\ _inputs' = Some(clean)
           /\ _outputs' = IF Len(aligned) # Len(clean) THEN Some(loc(kept, Index(clean)))
                          ELSE Some(kept)
           /\ num_fits' = dataset_fits(Len(clean), hyperparams[1])
    /\ _needs_fit' = TRUE
    /\ raw' = Some([inputs |-> inputs, outputs |-> outputs])
    /\ out' = [st |-> "ok", op |-> "set_training_data", at |-> "return"]
    /\ UNCHANGED <<config, hyperparams, _model, params, _models, _y_train,
                   search, pc, cur, acc, work, hist, sample>>
    /\ Shared

\* PrimitiveBase.__init__ as line 122 calls it, super().__init__(self,
\* hyperparams=..., random_seed=...): self is passed a second time, as a
\* positional argument. The base class belongs to d3m, outside the
\* repository: a constructor whose parameters are keyword-only (the d3m
\* release setup.py names) raises TypeError, one that takes the argument
\* returns
PrimitiveBase_init(keyword_only) ==
    IF keyword_only THEN [raised |-> TRUE, error |-> "TypeError"]
    ELSE [raised |-> FALSE]

\* `if self._needs_fit: self.fit()` (lines 218-219, 262-263, 287-288) and
\* the body of fit (lines 202-204): whether ForestCV.fit runs, on which
\* arrays, and whether the call raises. Without training data the read of
\* self._inputs raises. The orchestrator of a primitive has neither grid nor
\* hyperparameters (line 123), so with num_fits >= 1 its fit raises in the
\* first iteration (forest.py:174)
forced_fit ==
    IF ~_needs_fit
    THEN [ran |-> FALSE, raised |-> FALSE]
    ELSE IF _inputs = None
    THEN [ran |-> FALSE, raised |-> TRUE]
    ELSE [ran |-> TRUE, raised |-> num_fits >= 1,
          X |-> Values(_inputs[1]), y |-> Values(_outputs[1])]

\* what the forced fit r leaves: ForestCV.fit records the targets (line 117)
\* and, unless it raises, stores the members built (none, with no iteration);
\* _needs_fit is cleared only when it returns (line 204)
ForcedFit(r) ==
    IF r.ran
    THEN /\ _y_train' = fit_y_train(r.X, r.y)
         /\ _models' = IF r.raised THEN _models ELSE fit_models(<<>>)
         /\ cur' = Some([X |-> r.X, y |-> r.y, nf |-> num_fits, before |-> Len(_models)])
         /\ ncalls' = ncalls + 1
         /\ status' = IF r.raised THEN "raised:params" ELSE "ok"
         /\ sample' = IF r.raised THEN <<search_subset(r.X, r.y)>> ELSE <<>>
         /\ _needs_fit' = r.raised
    ELSE UNCHANGED <<_y_train, _models, cur, ncalls, status, sample, _needs_fit>>

\* EnsembleForestPrimitive.fit()
fit ==
    /\ pc = "idle"
    /\ hyperparams # None
    /\ _needs_fit => ncalls < MaxCalls
    /\ ForcedFit(forced_fit)
    /\ out' = [st |-> IF forced_fit.raised THEN "raised" ELSE "ok", op |-> "fit",
                at |-> "fit"]
    /\ UNCHANGED <<config, hyperparams, _inputs, _outputs, label_map, raw,
                   _model, num_fits, params, search, pc, acc, work, order>>
    /\ Shared

\* the key of the label map a prediction equals: a predicted class is
\* itself, the mean of a regression ensemble the integer it equals (1.0 is
\* the key 1), if it equals one
map_key(v) ==
    IF mode = "regression"
    THEN (IF v.den = 1 THEN Some(v.num) ELSE None)
    ELSE Some(v)

\* produce lines 237-241: the predictions mapped through the label map, a
\* value that is no key of the map to NaN; an empty or unset map is skipped
produce_map(result) ==
    IF label_map = None \/ label_map[1] = <<>>
    THEN result
    ELSE [k \in DOMAIN result |->
            LET key == map_key(result[k])
            IN  IF key # None /\ (key[1] + 1) \in DOMAIN label_map[1]
                THEN label_map[1][key[1] + 1]
                ELSE NaN]

\* the body of a produce-type call after the forced fit, in the state the
\* forced fit leaves: produce lines 222-250, produce_feature_importances
\* lines 266-277, produce_shap_values lines 291-357. P and Q are what the
\* members predict and what they return
produce_body(op, inputs, P, Q) ==
    IF op = "produce"
    THEN LET res == predict_out(P)
         IN  IF res.st = "raised"
             THEN [st |-> "raised", op |-> op, at |-> "predict"]
             ELSE [st |-> "ok", op |-> op, at |-> "return", result |-> res.val,
                   val |-> produce_map(res.val)]
    ELSE IF op = "produce_feature_importances"
    THEN LET res == first_member("feature_importances", Q)
         IN  IF res.st = "raised"
             THEN [st |-> "raised", op |-> op, at |-> "feature_importances"]
             ELSE [st |-> "ok", op |-> op, at |-> "return", val |-> res.val]
    ELSE IF Values(inputs) = Values(_inputs[1])
    THEN [st |-> "ok", op |-> op, at |-> "return", val |-> <<>>]
    ELSE IF _models = <<>>
    THEN [st |-> "raised", op |-> op, at |-> "explain"]
    ELSE [st |-> "ok", op |-> op, at |-> "return", val |-> Q[1]]

\* produce, produce_feature_importances and produce_shap_values: the forced
\* fit, then the body
produce_type(op, inputs) ==
    /\ pc = "idle"
    /\ hyperparams # None
    /\ _needs_fit => ncalls < MaxCalls
    /\ ForcedFit(forced_fit)
    /\ UNCHANGED <<config, hyperparams, _inputs, _outputs, label_map, raw,
                   _model, num_fits, params, search, pc, acc, work, order>>
    /\ Shared
    /\ IF forced_fit.raised
       THEN out' = [st |-> "raised", op |-> op, at |-> "fit"]
       ELSE \E P \in [DOMAIN _models' -> [DOMAIN inputs -> Labels]] :
              \E Q \in [DOMAIN _models' -> Labels] :
                 out' = produce_body(op, inputs, P, Q)'

produce(inputs) == produce_type("produce", inputs)

produce_feature_importances(inputs) ==
    produce_type("produce_feature_importances", inputs)

produce_shap_values(inputs) == produce_type("produce_shap_values", inputs)

\* __getstate__ lines 127-131: the constructor arguments the base class
\* saves, the orchestrator this primitive holds (the object, line 129), and
\* the value of the flag
__getstate__ ==
    /\ pc = "idle"
    /\ hyperparams # None
    /\ saved' = Some([constructor |-> hyperparams[1],
                      models    |-> orchestrator,
                      needs_fit |-> _needs_fit,
                      live      |-> TRUE])
    /\ out' = [st |-> "ok", op |-> "__getstate__", at |-> "return"]
    /\ UNCHANGED <<config, hyperparams, _inputs, _outputs, label_map, _needs_fit, raw,
                   _model, num_fits, params, _models, _y_train, search, pc, cur, acc,
                   work, hist, sample>>

\* __setstate__ line 136: the flag of the restored primitive
setstate_needs_fit(state) == TRUE

\* __setstate__ lines 133-136, on the object unpickling creates (fresh: it
\* holds no training data) or on this primitive (it keeps the data it
\* holds): the base class runs __init__ again with the saved constructor
\* arguments, which leaves no label map (line 125); then the orchestrator
\* of the state is taken (line 135), so that from here on the state refers
\* to the orchestrator this primitive holds, and the flag is set
__setstate__(fresh) ==
    /\ pc = "idle"
    /\ saved # None
    /\ hyperparams' = Some(saved[1].constructor)
    /\ _inputs' = IF fresh THEN None ELSE _inputs
    /\ _outputs' = IF fresh THEN None ELSE _outputs
    /\ label_map' = None
    /\ raw' = IF fresh THEN None ELSE raw
    /\ num_fits' = saved[1].models.num_fits
    /\ _models' = saved[1].models._models
    /\ _y_train' = saved[1].models._y_train
    /\ cur' = saved[1].models.cur
    /\ status' = saved[1].models.status
    /\ _needs_fit' = setstate_needs_fit(saved[1])
    /\ saved' = Some([saved[1] EXCEPT !.live = TRUE])
    /\ out' = [st |-> "ok", op |-> "__setstate__", at |-> "return"]
    /\ UNCHANGED <<config, _model, params, search, pc, acc, work,
                   order, ncalls, sample>>

\* state = pickle.loads(pickle.dumps(state)): the caller serialises the
\* state __getstate__ returned; the copy holds a model object of its own,
\* which no later call on the primitive changes
pickle_state ==
    /\ saved # None
    /\ saved[1].live
    /\ saved' = Some([saved[1] EXCEPT !.live = FALSE])
    /\ UNCHANGED <<config, hyperparams, _inputs, _outputs, label_map, _needs_fit, raw,
                   _model, num_fits, params, _models, _y_train, search, pc, cur, acc,
                   work, hist, sample, out>>

\* ----------------------------------------------- TextClassifierPrimitive
\* _get_grid_for_metric lines 159-165: the fast grid, or a raise
get_grid_for_metric(metric) ==
    IF metric \in classification_metrics
    THEN [raised |-> FALSE, grid |-> "classification"]
    ELSE [raised |-> TRUE]

\* numpy RandomState(1), the generator DataFrame.sample(random_state=1)
\* draws from (line 130): the low byte of each of the first 32-bit words it
\* gives
RandomState_words ==
    << 37, 235, 140, 72, 255, 137, 203, 133, 79, 192, 144, 129, 204, 71, 237, 252,
       134, 25, 178, 20, 254, 101, 146, 212, 139, 252, 234, 156, 157, 142, 50, 68,
       215, 215, 233, 241, 247, 222, 96, 86, 141, 233, 137, 7, 63, 61, 22, 57 >>

\* the smallest mask of ones that covers max
RECURSIVE interval_mask(_, _)
interval_mask(max, mask) ==
    IF mask >= max THEN mask ELSE interval_mask(max, 2 * mask + 1)

\* numpy random_interval(max): words are drawn and masked until one is at
\* most max; at is the next word of the generator
RECURSIVE random_interval(_, _)
random_interval(max, at) ==
    LET value == RandomState_words[at] % (interval_mask(max, 1) + 1)
    IN  IF value <= max THEN [value |-> value, next |-> at + 1]
        ELSE random_interval(max, at + 1)

\* numpy shuffle: position i, from the last down to the second, is swapped
\* with a position drawn from those up to it
RECURSIVE shuffle(_, _, _)
shuffle(arr, i, at) ==
    IF i < 1 THEN arr
    ELSE LET drawn == random_interval(i, at)
             j     == drawn.value
         IN  shuffle([arr EXCEPT ![i + 1] = arr[j + 1], ![j + 1] = arr[i + 1]],
                     i - 1, drawn.next)

\* numpy RandomState(1).permutation(N): the positions 1..N shuffled
permutation(N) == shuffle([k \in 1..N |-> k], N - 1, 1)

\* pandas: DataFrame.sample(n, random_state=1), the rows at the first n
\* positions of the seeded permutation, in that order; Index.intersection,
\* in the order of the left index
sample_rows(df, n) ==
    LET drawn == permutation(Len(df))
    IN  [k \in 1..n |-> df[drawn[k]]]

intersection(left, right) == SelectSeq(left, LAMBDA x : x \in Range(right))

\* fit lines 127-134: the rows TextClassifierCV.fit is given, or None when
\* it is not called
text_fit_rows ==
    IF hyperparams[1].fast
    THEN IF Len(_inputs[1]) > FAST_FIT_ROWS
         THEN LET sampled_inputs  == sample_rows(_inputs[1], FAST_FIT_ROWS)
                  sampled_outputs ==
                      loc(_outputs[1],
                          intersection(Index(_outputs[1]), Index(sampled_inputs)))
              IN  Some([X |-> sampled_inputs, y |-> sampled_outputs])
         ELSE None
    ELSE Some([X |-> _inputs[1], y |-> _outputs[1]])

\* TextClassifierPrimitive.set_training_data lines 112-117
text_set_training_data(inputs, outputs) ==
    /\ hyperparams # None
    /\ _inputs' = Some(inputs)
    /\ _outputs' = Some(outputs)
    /\ out' = [st |-> "ok", op |-> "set_training_data", at |-> "return"]
    /\ UNCHANGED <<config, hyperparams, label_map, _needs_fit, raw, saved, _model,
                   num_fits, params, _models, _y_train, search, pc, cur, acc, work,
                   hist, sample>>

\* TextClassifierPrimitive.fit lines 125-136: without training data the
\* read of self._inputs raises. self._model.fit trains the model object in
\* place, so a state that refers to it (line 103) holds the trained model
text_fit ==
    /\ hyperparams # None
    /\ IF _inputs = None
       THEN /\ out' = [st |-> "raised", op |-> "fit", at |-> "fit"]
            /\ UNCHANGED _model
       ELSE /\ _model' = IF text_fit_rows = None THEN _model ELSE text_fit_rows
            /\ out' = [st |-> "ok", op |-> "fit", at |-> "return",
                        trained |-> text_fit_rows # None]
    /\ UNCHANGED <<config, hyperparams, _inputs, _outputs, label_map, _needs_fit, raw,
                   num_fits, params, _models, _y_train, search, pc, cur, acc,
                   work, hist, sample>>
    /\ saved' = IF saved # None /\ saved[1].live
                THEN Some([saved[1] EXCEPT !.models = _model'])
                ELSE saved

\* TextClassifierPrimitive.__init__ lines 90-98 of a further primitive,
\* which becomes the object the calls are made on; a state saved before
\* stays with the caller and refers to the model of the primitive it came
\* from
text_init(hp) ==
    /\ hyperparams # None
    /\ ~(hp.fast /\ get_grid_for_metric(hp.metric).raised)
    /\ hyperparams' = Some(hp)
    /\ target_metric' = hp.metric
    /\ _inputs' = None
    /\ _outputs' = None
    /\ _model' = None
    /\ saved' = IF saved = None THEN None ELSE Some([saved[1] EXCEPT !.live = FALSE])
    /\ out' = [st |-> "ok", op |-> "__init__", at |-> "return"]
    /\ UNCHANGED <<mode, param_grid, random_seed, subset, final_subset, outer_jobs,
                   sampler, oracle, label_map, _needs_fit, raw, num_fits,
                   params, _models, _y_train, search, pc, cur, acc, work, hist,
                   sample>>

\* TextClassifierPrimitive.__getstate__ lines 101-105: the constructor
\* arguments the base class saves, the model this primitive holds (the
\* object, line 103), the grid
text___getstate__ ==
    /\ hyperparams # None
    /\ saved' = Some([constructor |-> hyperparams[1],
                      models |-> _model,
                      grid   |-> IF hyperparams[1].fast
                                 THEN Some(get_grid_for_metric(hyperparams[1].metric).grid)
                                 ELSE None,
                      live   |-> TRUE])
    /\ out' = [st |-> "ok", op |-> "__getstate__", at |-> "return"]
    /\ UNCHANGED <<config, hyperparams, _inputs, _outputs, label_map, _needs_fit, raw,
                   _model, num_fits, params, _models, _y_train, search, pc, cur, acc,
                   work, hist, sample>>

\* TextClassifierPrimitive.__setstate__ lines 107-110: the base class runs
\* __init__ again with the saved constructor arguments, then the model of
\* the state is taken (line 109), so that from here on the state refers to
\* the model this primitive holds; the training data is left alone
text___setstate__ ==
    /\ hyperparams # None
    /\ saved # None
    /\ hyperparams' = Some(saved[1].constructor)
    /\ target_metric' = saved[1].constructor.metric
    /\ _model' = saved[1].models
    /\ saved' = Some([saved[1] EXCEPT !.live = TRUE])
    /\ out' = [st |-> "ok", op |-> "__setstate__", at |-> "return"]
    /\ UNCHANGED <<mode, param_grid, random_seed, subset, final_subset, outer_jobs,
                   sampler, oracle, _inputs, _outputs, label_map, _needs_fit, raw,
                   num_fits, params, _models, _y_train, search, pc, cur, acc,
                   work, hist, sample>>

Outcomes == Fitness \cup {Failure}

Next ==
    \/ \E n \in 0..MaxFits : set_num_fits(n)
    \/ \E T \in TrainingSets : ncalls < MaxCalls /\ fit_begin(T)
    \/ \E f \in Outcomes : fit_direct(f)
    \/ parmap_submit
    \/ parmap_start
    \/ \E i \in DOMAIN work : \E f \in Outcomes : parmap_finish(i, f)
    \/ \E f \in Outcomes : select_refit(f)
    \/ fit_return
    \/ \E r \in 1..MaxPredRows :
         \E P \in [DOMAIN _models -> [1..r -> Labels]] : predict(r, P)

Spec == Init /\ [][Next]_vars

\* ------------------------------------------------- the grid search alone
\* ForestCV.__init__ with an explicit grid and any outer concurrency degree;
\* the first fit call of the orchestrator runs one search
InitSearch ==
    /\ target_metric \in classification_metrics \cup regression_metrics
    /\ mode = init_mode(target_metric).mode
    /\ oracle = None
    /\ NoPrimitive
    /\ num_fits = DefaultNumFits
    /\ param_grid \in {Some(g) : g \in ParamGrids}
    /\ params = None
    /\ random_seed \in RandomSeeds
    /\ subset = DefaultSubset
    /\ final_subset = DefaultFinalSubset
    /\ outer_jobs \in 1..MaxJobs
    /\ sampler = 0
    /\ Unfit

SearchSets == {T \in TrainingSets : Len(T.y) = MaxRows /\ \A i \in DOMAIN T.y : T.y[i] = i}

NextSearch ==
    \/ \E T \in SearchSets : status = "none" /\ fit_begin(T)
    \/ parmap_submit
    \/ parmap_start
    \/ \E i \in DOMAIN work : \E f \in Outcomes : parmap_finish(i, f)
    \/ \E f \in Outcomes : select_refit(f)
    \/ fit_return

SpecSearch == InitSearch /\ [][NextSearch]_vars

\* ---------------------------------------------------- subsampling alone
\* ForestCV.__init__ with size bounds small enough to matter, with fixed
\* hyperparameters or a one-point grid; the first fit call of the
\* orchestrator
InitSample ==
    /\ target_metric \in classification_metrics \cup regression_metrics
    /\ mode = init_mode(target_metric).mode
    /\ oracle = None
    /\ NoPrimitive
    /\ num_fits \in 1..MaxFits
    /\ \/ param_grid = None /\ params \in {Some(h) : h \in FixedParams}
       \/ /\ param_grid \in {Some(g) : g \in ParamGrids}
          /\ Len(ParameterGrid(param_grid[1])) = 1
          /\ params = None
    /\ random_seed = None
    /\ subset \in 1..(MaxSubset + 1)
    /\ final_subset \in 1..(MaxSubset + 1)
    /\ outer_jobs = DefaultJobs
    /\ sampler \in 0..MaxOffset
    /\ Unfit

NextSample ==
    \/ \E T \in TrainingSets : status = "none" /\ fit_begin(T)
    \/ \E f \in Outcomes : fit_direct(f)
    \/ parmap_submit
    \/ parmap_start
    \/ \E i \in DOMAIN work : \E f \in Outcomes : parmap_finish(i, f)
    \/ \E f \in Outcomes : select_refit(f)
    \/ fit_return
    \/ details
    \/ \E Q \in [DOMAIN _models -> Labels] : predict_proba(Q)
    \/ \E Q \in [DOMAIN _models -> Labels] : feature_importances(Q)

SpecSample == InitSample /\ [][NextSample]_vars

\* ------------------------------------------------ the model factory alone
\* ForestCV.__init__ with any metric name and with fixed hyperparameters or
\* a grid naming any estimator; the first fit call of the orchestrator
InitFactory ==
    /\ target_metric \in MetricNames
    /\ sampler = 0
    /\ oracle = None
    /\ NoPrimitive
    /\ IF init_mode(target_metric).raised
       THEN NoOrchestrator
       ELSE /\ mode = init_mode(target_metric).mode
            /\ num_fits \in 1..MaxFits
            /\ \/ param_grid = None /\ params \in {Some(h) : h \in FactoryParams}
               \/ param_grid \in {Some(g) : g \in FactoryGrids} /\ params = None
            /\ random_seed = None
            /\ subset = DefaultSubset
            /\ final_subset = DefaultFinalSubset
            /\ outer_jobs = DefaultJobs
            /\ Unfit

NextFactory ==
    \/ \E T \in TrainingSets : status = "none" /\ fit_begin(T)
    \/ \E f \in Outcomes : fit_direct(f)
    \/ parmap_submit
    \/ parmap_start
    \/ \E i \in DOMAIN work : \E f \in Outcomes : parmap_finish(i, f)
    \/ \E f \in Outcomes : select_refit(f)
    \/ fit_return

SpecFactory == InitFactory /\ [][NextFactory]_vars

\* the libraries of seeded models over the hyperparameters of points, a
\* grid or the one fixed setting; evaluated is the number of grid points
SeededLibrary(md, points, evaluated) ==
    LET keys == { LibraryKey(md, points[i]) : i \in DOMAIN points }
    IN  [eval : [1..evaluated -> Outcomes],
         fit : [keys -> BOOLEAN],
         predict : [keys -> [1..MaxPredRows -> Labels]]]

\* --------------------------------------------------- a fixed random seed
\* ForestCV.__init__ with a random seed, and a library whose seeded models
\* are reproducible; with a grid, or with fixed hyperparameters; the first
\* fit call of the orchestrator, and the predict calls around it
InitSeed ==
    /\ target_metric \in classification_metrics \cup regression_metrics
    /\ mode = init_mode(target_metric).mode
    /\ NoPrimitive
    /\ num_fits \in 1..MaxFits
    /\ \/ /\ param_grid = None /\ params \in {Some(h) : h \in FixedParams}
          /\ oracle \in {Some(o) : o \in SeededLibrary(mode, <<params[1]>>, 0)}
       \/ /\ param_grid \in {Some(g) : g \in SeedGrids} /\ params = None
          /\ oracle \in {Some(o) : o \in SeededLibrary(mode, Grid, Len(Grid))}
    /\ random_seed \in RandomSeeds \ {None}
    /\ subset = DefaultSubset
    /\ final_subset = DefaultFinalSubset
    /\ outer_jobs \in 1..MaxJobs
    /\ sampler = 0
    /\ Unfit

NextSeed ==
    \/ \E T \in SearchSets : status = "none" /\ fit_begin(T)
    \/ \E f \in Outcomes : fit_direct(f)
    \/ parmap_submit
    \/ parmap_start
    \/ \E i \in DOMAIN work : \E f \in Outcomes : parmap_finish(i, f)
    \/ \E f \in Outcomes : select_refit(f)
    \/ fit_return
    \/ \E r \in 1..MaxPredRows :
         \E P \in [DOMAIN _models -> [1..r -> Labels]] : predict(r, P)

SpecSeed == InitSeed /\ [][NextSeed]_vars

\* ------------------------------------------- the primitive's training data
\* EnsembleForestPrimitive.__init__ lines 120-125, called with the
\* hyperparameters hyperparams[1]. Where the base constructor raises, no
\* primitive exists and nothing can be called on it; where it returns, the
\* orchestrator is constructed with the metric alone
InitPrimitive ==
    /\ hyperparams \in {Some(hp) : hp \in PrimitiveHyperparams}
    /\ _inputs = None
    /\ _outputs = None
    /\ label_map = None
    /\ raw = None
    /\ saved = None
    /\ _model = None
    /\ target_metric = hyperparams[1].metric
    /\ oracle = None
    /\ sampler = 0
    /\ \E keyword_only \in BOOLEAN :
          IF PrimitiveBase_init(keyword_only).raised
          THEN /\ _needs_fit = FALSE
               /\ mode = "none"
               /\ num_fits = 0
               /\ param_grid = None
               /\ params = None
               /\ random_seed = None
               /\ subset = 0
               /\ final_subset = 0
               /\ outer_jobs = 0
               /\ _models = <<>>
               /\ _y_train = None
               /\ results = None
               /\ best_params = None
               /\ best_fitness = None
               /\ pc = "raised"
               /\ cur = None
               /\ acc = <<>>
               /\ work = <<>>
               /\ order = NoOrder
               /\ ncalls = 0
               /\ status = "none"
               /\ sample = <<>>
               /\ out = [st |-> "raised", op |-> "__init__", at |-> "super().__init__",
                         error |-> PrimitiveBase_init(keyword_only).error]
          ELSE /\ _needs_fit = TRUE
               /\ mode = init_mode(target_metric).mode
               /\ num_fits = DefaultNumFits
               /\ param_grid = None
               /\ params = None
               /\ random_seed = None
               /\ subset = DefaultSubset
               /\ final_subset = DefaultFinalSubset
               /\ outer_jobs = DefaultJobs
               /\ Unfit

NextPrimitive ==
    \E D \in RawData : set_training_data(D.inputs, D.outputs)

SpecPrimitive == InitPrimitive /\ [][NextPrimitive]_vars

\* --------------------------------------- the cleaning of the training data
\* EnsembleForestPrimitive.__init__ with the fits of small data sets; the
\* first set_training_data call, on frames of any index order
InitAlign ==
    /\ InitPrimitive
    /\ hyperparams[1].small_dataset_threshold = MaxRows
    /\ hyperparams[1].small_dataset_fits = DefaultNumFits
    /\ hyperparams[1].large_dataset_fits = DefaultNumFits

NextAlign ==
    \E D \in IndexedData : raw = None /\ set_training_data(D.inputs, D.outputs)

SpecAlign == InitAlign /\ [][NextAlign]_vars

\* ------------------------------------------- the primitive's call protocol
\* EnsembleForestPrimitive.__init__ with any number of fits for small data
\* sets, then set_training_data, fit and the produce-type calls in any order
InitProtocol ==
    /\ InitPrimitive
    /\ hyperparams[1].small_dataset_threshold = MaxRows
    /\ hyperparams[1].large_dataset_fits = DefaultNumFits

NextProtocol ==
    \/ \E D \in ProtocolData : set_training_data(D.inputs, D.outputs)
    \/ fit
    \/ \E inputs \in ProduceInputs : produce(inputs)
    \/ \E inputs \in ProduceInputs : produce_feature_importances(inputs)
    \/ \E inputs \in ProduceInputs : produce_shap_values(inputs)

SpecProtocol == InitProtocol /\ [][NextProtocol]_vars

\* ----------------------------------------------- the primitive's label map
\* EnsembleForestPrimitive.__init__, then set_training_data on targets of
\* one, two or more distinct labels, and produce
NextLabels ==
    \/ \E D \in LabelData : set_training_data(D.inputs, D.outputs)
    \/ \E inputs \in ProduceInputs : produce(inputs)

SpecLabels == InitProtocol /\ [][NextLabels]_vars

\* ------------------------------------------ saving and restoring a primitive
\* the call protocol, with __getstate__ and __setstate__ at any point
NextPickle ==
    \/ \E D \in ProtocolData : set_training_data(D.inputs, D.outputs)
    \/ fit
    \/ \E inputs \in ProduceInputs : produce(inputs)
    \/ __getstate__
    \/ pickle_state
    \/ \E fresh \in BOOLEAN : __setstate__(fresh)

SpecPickle == InitProtocol /\ [][NextPickle]_vars

\* ------------------------------------------------- the text classifier
\* TextClassifierPrimitive.__init__ lines 90-98, in fast mode or not: in
\* fast mode a metric that is no classification metric raises and leaves no
\* primitive; there is no forest orchestrator
InitText ==
    /\ hyperparams \in {Some(hp) : hp \in TextHyperparams}
    /\ ~(hyperparams[1].fast /\ get_grid_for_metric(hyperparams[1].metric).raised)
    /\ target_metric = hyperparams[1].metric
    /\ _inputs = None
    /\ _outputs = None
    /\ label_map = None
    /\ _needs_fit = FALSE
    /\ raw = None
    /\ saved = None
    /\ _model = None
    /\ sampler = 0
    /\ oracle = None
    /\ NoOrchestrator

NextText ==
    \/ \E hp \in TextHyperparams : text_init(hp)
    \/ \E D \in TextData : text_set_training_data(D.inputs, D.outputs)
    \/ text_fit
    \/ text___getstate__
    \/ pickle_state
    \/ text___setstate__

SpecText == InitText /\ [][NextText]_vars

\* ================================================================ claims
Raised == status \in {"raised:params", "raised:fit", "raised:eval",
                      "raised:select", "raised:refit"}

\* C1: after a successful fit(X, y) with num_fits = N the ensemble holds
\* exactly N members, member i is the one the i-th iteration of that call
\* built, and the recorded training targets are y.
C1_FitStoresNumFitsMembers ==
    status = "ok" =>
        /\ Len(_models) = cur[1].nf
        /\ \A i \in DOMAIN _models :
              _models[i].born = [call |-> ncalls, iter |-> i, of |-> cur[1].nf]
        /\ _y_train = Some(cur[1].y)

C1_Witness ==
    /\ status = "ok"
    /\ Len(_models) = 2
    /\ ncalls = 2
    /\ _y_train = Some(<<2, 1>>)

\* C2: a fit call that returns replaces the ensemble: its length is the
\* num_fits in force at the call and none of the members held before the
\* call remains.
C2_FitReplacesEnsemble ==
    [][ (status = "running" /\ status' = "ok") =>
            /\ Len(_models') = cur[1].nf
            /\ \A m \in Range(_models) : m \notin Range(_models')
            /\ \A m \in Range(_models') : m.born.call = ncalls ]_vars

C2_Witness ==
    /\ status = "ok"
    /\ cur[1].before = 2
    /\ Len(_models) = 1

\* C3: a fit call that raises ends the call, and the stored member list is
\* at every moment empty or the complete list of one call, never members of
\* a call that is still running or that raised.
C3_NoPartialEnsemble ==
    /\ Raised => pc = "idle"
    /\ \/ _models = <<>>
       \/ /\ Len(_models) = _models[1].born.of
          /\ \A i \in DOMAIN _models :
                /\ _models[i].born.iter = i
                /\ _models[i].born.call = _models[1].born.call
                /\ _models[i].born.of = _models[1].born.of
          /\ status # "ok" => _models[1].born.call < ncalls

C3_Witness ==
    /\ status \in {"raised:fit", "raised:refit", "raised:eval"}
    /\ Len(sample) = 2
    /\ Len(_models) = 1

Voted(r, l) == VoteCount(out.preds, r, l)

Position(seq, v) == CHOOSE i \in DOMAIN seq : seq[i] = v /\ \A j \in 1..(i - 1) : seq[j] # v

\* C4: in classification mode predict returns for every row the label with
\* the highest vote count among the members' predictions for that row, and
\* among labels tied at the highest count the one earliest in the label
\* ordering.
C4_VoteIsTopLabel ==
    (mode = "classification" /\ out.st = "ok") =>
        \A r \in DOMAIN out.val :
            /\ \A l \in Labels : Voted(r, l) <= Voted(r, out.val[r])
            /\ \A l \in Range(out.labels) :
                  Voted(r, l) = Voted(r, out.val[r]) =>
                      Position(out.labels, out.val[r]) <= Position(out.labels, l)

\* the same statement for the ensembles whose own fit call recorded the
\* targets: it holds there
C4_VoteAfterSuccessfulFit == status = "ok" => C4_VoteIsTopLabel

C4_TieWitness ==
    /\ mode = "classification" /\ out.st = "ok" /\ status = "ok"
    /\ out.labels = <<2, 1>>
    /\ Len(_models) = 2
    /\ \E r \in DOMAIN out.val :
          /\ out.preds[1][r] = 1 /\ out.preds[2][r] = 2
          /\ out.val[r] = 2

\* C5: the label ordering predict hands to the vote is the distinct values
\* of the targets recorded by the latest fit call, each once, in order of
\* first occurrence.
C5_LabelsInFirstSeenOrder ==
    (mode = "classification" /\ out.st = "ok") =>
        LET y == cur[1].y
            labels == out.labels
        IN  /\ Range(labels) = Range(y)
            /\ Len(labels) = Cardinality(Range(y))
            /\ \A i, j \in DOMAIN labels :
                  i < j => Position(y, labels[i]) < Position(y, labels[j])

C5_Witness ==
    /\ mode = "classification" /\ out.st = "ok"
    /\ cur[1].y = <<2, 1>>
    /\ out.labels = <<2, 1>>

\* C6: in regression mode predict returns one value per row, the arithmetic
\* mean of all members' predictions for that row.
C6_RegressionMean ==
    (mode = "regression" /\ out.st = "ok") =>
        /\ DOMAIN out.val = DOMAIN out.preds[1]
        /\ \A r \in DOMAIN out.val :
              /\ out.val[r].den > 0
              /\ out.val[r].num * Len(_models) =
                   SumSeq([m \in DOMAIN out.preds |-> out.preds[m][r]]) * out.val[r].den

C6_Witness ==
    /\ mode = "regression" /\ out.st = "ok"
    /\ Len(_models) = 2
    /\ \E r \in DOMAIN out.val :
          /\ out.preds[1][r] = 1 /\ out.preds[2][r] = 2
          /\ out.val[r] = [num |-> 3, den |-> 2]

Evaluated(i) == SetKey(Grid[i], "random_state", random_seed)

\* C7: after a grid search the best hyperparameters and the best fitness
\* are those of one evaluated grid point, and no evaluated point has a
\* fitness above the best fitness, wherever in the grid the best point is.
C7_BestIsMaximum ==
    (results # None /\ results[1] # <<>>) =>
        /\ best_params # None /\ best_fitness # None
        /\ \E i \in DOMAIN results[1] :
              results[1][i] = [params |-> best_params[1], fitness |-> best_fitness[1]]
        /\ \A i \in DOMAIN results[1] : results[1][i].fitness <= best_fitness[1]

C7_Witness ==
    /\ results # None
    /\ Len(results[1]) >= 2
    /\ results[1][1].fitness > results[1][2].fitness
    /\ best_fitness = Some(results[1][1].fitness)
    /\ best_params = Some(results[1][1].params)

\* C8: the parallel map keeps input order under every interleaving: while
\* it runs, the entry of point i holds the evaluation of point i, and the
\* result list has one entry per grid point, entry i for point i, whatever
\* the concurrency degree and the order in which the workers complete.
C8_ResultsInInputOrder ==
    /\ pc = "search" =>
          /\ DOMAIN work = DOMAIN Grid
          /\ \A i \in DOMAIN work :
                work[i].st = "done" => work[i].res.params = Evaluated(i)
    /\ (results # None /\ param_grid # None) =>
          /\ Len(results[1]) = Len(Grid)
          /\ \A i \in DOMAIN results[1] : results[1][i].params = Evaluated(i)

C8_Witness ==
    /\ results # None
    /\ pc = "iterate"
    /\ order.swapped
    /\ results[1][1].fitness > results[1][2].fitness

\* C9: an evaluation that raises ends the whole call at once: nothing of
\* the search is stored (no result list, no best hyperparameters or
\* fitness), no member is built for the iteration, and no point whose
\* evaluation raised ever counts as evaluated.
C9_FailedEvaluationAborts ==
    [][ /\ (status = "running" /\ status' = "raised:eval") =>
              /\ pc' = "idle"
              /\ UNCHANGED <<results, best_params, best_fitness, _models>>
              /\ acc' = <<>>
              /\ work' = <<>>
        /\ \A i \in DOMAIN work' :
              work'[i].st = "done" => work'[i].raw # Failure ]_vars

C9_Witness ==
    /\ status = "raised:eval"
    /\ order.done >= 1
    /\ order.swapped

\* C10: the subsample _fit searches on is X and y unchanged when there are
\* at most n = subset rows, and otherwise exactly n rows of X and n of y,
\* row k of both taken from the same row of the input; every iteration of a
\* call selects the same rows.
C10_SubsetAligned ==
    \A k \in DOMAIN sample :
        LET s == sample[k]
            T == cur[1]
        IN  /\ IF Len(T.X) <= subset
               THEN s.X = T.X /\ s.y = T.y
               ELSE /\ Len(s.X) = subset /\ Len(s.y) = subset
                    /\ \A j \in 1..subset :
                          \E i \in DOMAIN T.X : s.X[j] = T.X[i] /\ s.y[j] = T.y[i]
            /\ s = sample[1]

C10_Witness ==
    /\ Len(sample) = 2
    /\ Len(cur[1].X) > subset
    /\ cur[1].y = <<1, 2>>
    /\ sample[2].y = <<2>>

\* C11: a metric name of neither family makes the construction raise: no
\* orchestrator with such a metric exists, none has a mode, and none has
\* started a fit or holds anything a fit leaves behind.
C11_UnknownMetricRaises ==
    target_metric \notin (classification_metrics \cup regression_metrics) =>
        /\ pc = "raised"
        /\ mode = "none"
        /\ ncalls = 0 /\ status = "none"
        /\ _models = <<>> /\ _y_train = None /\ cur = None

C11_Witness ==
    /\ target_metric = "normalizedMutualInformation"
    /\ pc = "raised"

ValidPair(md, family) ==
    /\ md \in {"classification", "regression"}
    /\ family \in {"RandomForest", "ExtraTrees"}

ClassOf(md, family) ==
    IF md = "classification"
    THEN (IF family = "RandomForest" THEN "RandomForestClassifier"
                                     ELSE "ExtraTreesClassifier")
    ELSE (IF family = "RandomForest" THEN "RandomForestRegressor"
                                     ELSE "ExtraTreesRegressor")

\* the families the configuration asks for: the one of the fixed
\* hyperparameters, or the ones of the grid
Configured ==
    IF param_grid # None THEN { Grid[i].estimator : i \in DOMAIN Grid }
    ELSE IF params # None THEN { params[1].estimator }
    ELSE {}

\* C12: a model is only ever built for one of the four valid (mode, family)
\* pairs and is of the class of exactly that pair; a construction with
\* another pair raises, so that no evaluation of such a point completes and
\* a fit call that had to build such a model never returns.
C12_InvalidFamilyRaises ==
    /\ \A m \in Range(_models) \cup Range(acc) :
          \E family \in Configured :
              /\ ValidPair(m.mode, family)
              /\ m.model_cls = ClassOf(m.mode, family)
    /\ \A i \in DOMAIN work :
          work[i].st = "done" => ValidPair(mode, Grid[i].estimator)
    /\ (status = "ok" /\ cur[1].nf >= 1) =>
          /\ params # None => ValidPair(mode, params[1].estimator)
          /\ param_grid # None =>
                \A i \in DOMAIN Grid : ValidPair(mode, Grid[i].estimator)
    /\ (results # None /\ param_grid # None) =>
          \A i \in DOMAIN Grid : ValidPair(mode, Grid[i].estimator)

C12_Witness ==
    /\ Raised
    /\ \/ params # None /\ params[1].estimator = "GradientBoosting"
       \/ /\ param_grid # None
          /\ param_grid[1].estimator = <<"ExtraTrees", "GradientBoosting">>
    /\ _models = <<>>

SearchCompleted == results # None /\ results[1] # <<>>

\* C13: a read of details raises as long as no grid search has completed on
\* the orchestrator (never fit, fit through the fixed hyperparameters only,
\* every search failed); after one has, it returns the best fitness and the
\* best hyperparameters of the latest completed search, and num_fits.
C13_DetailsNeedsSearch ==
    ("op" \in DOMAIN out /\ out.op = "details") =>
        IF ~SearchCompleted
        THEN out.st = "raised"
        ELSE /\ out.st = "ok"
             /\ out.val.num_fits = num_fits
             /\ \E i \in DOMAIN results[1] :
                   /\ out.val.cv_score = Some(results[1][i].fitness)
                   /\ out.val.best_params = Some(results[1][i].params)
             /\ \A i \in DOMAIN results[1] :
                   Some(results[1][i].fitness) # out.val.cv_score =>
                       results[1][i].fitness < out.val.cv_score[1]

C13_Witness ==
    /\ "op" \in DOMAIN out /\ out.op = "details"
    /\ out.st = "raised"
    /\ status = "ok"
    /\ Len(_models) = 2
    /\ param_grid = None

\* C14: predict on an orchestrator that holds no member (never fit, or fit
\* with num_fits = 0) raises, in classification and in regression mode; it
\* returns no value.
C14_PredictNeedsMembers ==
    (out # NoPredict /\ _models = <<>>) => out.st = "raised"

C14_Witness ==
    /\ out.st = "raised"
    /\ _models = <<>>
    /\ status = "ok"
    /\ mode = "regression"

\* constructed with a metric name only: no grid, no fixed hyperparameters,
\* every other option at its default
MetricOnly ==
    /\ mode # "none"
    /\ param_grid = None /\ params = None
    /\ random_seed = None
    /\ subset = DefaultSubset /\ final_subset = DefaultFinalSubset
    /\ outer_jobs = DefaultJobs

\* C15: an orchestrator constructed with a metric name only completes every
\* fit call on valid data (no model fit and no metric raises): the call
\* returns, the ensemble holds num_fits members, and a search over the
\* default grid selected their hyperparameters.
C15_MetricOnlyFitCompletes ==
    (MetricOnly /\ pc = "idle" /\ ncalls > 0
        /\ status \notin {"raised:fit", "raised:eval", "raised:refit"}) =>
        /\ status = "ok"
        /\ Len(_models) = cur[1].nf
        /\ cur[1].nf >= 1 => best_params # None

\* the grid point a search over the library's outcomes must select
Selected ==
    CHOOSE i \in DOMAIN Grid :
        /\ \A j \in DOMAIN Grid : oracle[1].eval[j] <= oracle[1].eval[i]
        /\ \A j \in DOMAIN Grid : j > i => oracle[1].eval[j] < oracle[1].eval[i]

\* the hyperparameters the members of a returning fit are built from: the
\* selected grid point, or the fixed setting, with the seed
Fitted ==
    IF param_grid # None
    THEN Evaluated(Selected)
    ELSE SetKey(params[1], "random_state", random_seed)

\* what the seeded library predicts with the stored members for r rows
Predicted(r) ==
    [m \in DOMAIN _models |->
        [k \in 1..r |-> oracle[1].predict[MemberKey(_models[m])][k]]]

\* C16: with a fixed seed the outputs of fit followed by predict are a
\* function of the inputs alone: whatever order the evaluations start and
\* complete in, the result list, the best hyperparameters, the best
\* fitness, the members a returning fit stores and every prediction are the
\* ones the data, the configuration and the seeded library determine, and
\* a fit or a predict that raises in one run raises in every run.
C16_SeededRunsAgree ==
    oracle # None =>
        /\ (param_grid # None /\ SearchCompleted) =>
              /\ results[1] = [i \in DOMAIN Grid |->
                                 [params |-> Evaluated(i), fitness |-> oracle[1].eval[i]]]
              /\ best_fitness = Some(oracle[1].eval[Selected])
              /\ best_params = Some(Evaluated(Selected))
        /\ status = "raised:eval" => \E i \in DOMAIN Grid : oracle[1].eval[i] = Failure
        /\ status \in {"raised:refit", "raised:fit"} =>
              ~oracle[1].fit[LibraryKey(mode, Fitted)]
        /\ status = "ok" =>
              /\ param_grid # None => \A i \in DOMAIN Grid : oracle[1].eval[i] # Failure
              /\ oracle[1].fit[LibraryKey(mode, Fitted)]
              /\ _models =
                    [k \in 1..cur[1].nf |->
                        AnyForest(mode, SetKey(Fitted, "n_jobs", outer_jobs),
                                  cur[1].X, cur[1].y,
                                  [call |-> ncalls, iter |-> k, of |-> cur[1].nf])]
        /\ out # NoPredict =>
              \E r \in 1..MaxPredRows : out = predict_out(Predicted(r))

C16_Witness ==
    /\ oracle # None
    /\ status = "ok"
    /\ order.swapped
    /\ Len(_models) = 2
    /\ Len(Grid) >= 2
    /\ oracle[1].eval[1] = oracle[1].eval[2]
    /\ out # NoPredict
    /\ out.st = "ok"
    /\ Len(out.val) = MaxPredRows
    /\ out.val[1] # out.val[2]

\* C19: every model constructed during a fit call is given the configured
\* random seed: every evaluated grid point of every iteration, the best
\* hyperparameters the refit uses, every member built, and the fixed
\* hyperparameters once a fit has used them.
C19_SeedReused ==
    /\ \A i \in DOMAIN work :
          work[i].st = "done" => work[i].res.params.random_state = random_seed
    /\ results # None =>
          \A i \in DOMAIN results[1] : results[1][i].params.random_state = random_seed
    /\ best_params # None => best_params[1].random_state = random_seed
    /\ \A m \in Range(acc) \cup Range(_models) : m.params.random_state = random_seed
    /\ (param_grid = None /\ Len(sample) >= 1) => params[1].random_state = random_seed

C19_Witness ==
    /\ random_seed = Some(0)
    /\ param_grid # None
    /\ Len(Grid) >= 2
    /\ Len(acc) = 1
    /\ \E i \in DOMAIN work : work[i].st = "done"
    /\ best_params # None

C19_FixedWitness ==
    /\ random_seed = Some(0)
    /\ param_grid = None
    /\ status = "ok"
    /\ Len(_models) = 2

\* C17: after set_training_data the number of forests to fit is
\* small_dataset_fits when the cleaned training set has fewer rows than
\* small_dataset_threshold, and large_dataset_fits otherwise.
C17_FitsByThreshold ==
    _inputs # None =>
        num_fits = IF Len(_inputs[1]) < hyperparams[1].small_dataset_threshold
                   THEN hyperparams[1].small_dataset_fits
                   ELSE hyperparams[1].large_dataset_fits

\* C18: when several grid points tie at the maximum fitness, the search
\* selects the tied point enumerated last in grid order, for every grid and
\* every assignment of fitness values.
C18_LastTiedPointWins ==
    (SearchCompleted /\ param_grid # None) =>
        LET res  == results[1]
            tied == {i \in DOMAIN res : \A j \in DOMAIN res : res[j].fitness <= res[i].fitness}
            last == CHOOSE i \in tied : \A j \in tied : j <= i
        IN  /\ best_params = Some(Evaluated(last))
            /\ best_fitness = Some(res[last].fitness)

C18_Witness ==
    /\ SearchCompleted
    /\ Len(results[1]) = 4
    /\ results[1][1].fitness = 2 /\ results[1][2].fitness = 1
    /\ results[1][3].fitness = 2 /\ results[1][4].fitness = 1
    /\ best_params = Some(results[1][3].params)
    /\ order.swapped

Min(a, b) == IF a <= b THEN a ELSE b

\* C20: in the grid-search path the member an iteration stores is fitted on
\* min(row count, final_subset) rows, its search ran on min(row count,
\* subset) rows, and the refit subsample is never the smaller of the two.
C20_RefitNotSmaller ==
    param_grid # None =>
        \A m \in Range(acc) \cup Range(_models) :
            LET rows == Len(cur[1].X)
                s    == sample[m.born.iter]
            IN  /\ Len(m.X) = Min(rows, final_subset)
                /\ Len(m.y) = Len(m.X)
                /\ Len(s.X) = Min(rows, subset)
                /\ Len(m.X) >= Len(s.X)

\* the same statement for the configurations whose refit bound is not below
\* the search bound: it holds there
C20_RefitWhenOrdered == final_subset >= subset => C20_RefitNotSmaller

C20_OrderedWitness ==
    /\ param_grid # None
    /\ status = "ok"
    /\ Len(_models) = 2
    /\ Len(cur[1].X) = 2
    /\ subset = 1 /\ final_subset = 2
    /\ Len(_models[2].X) = 2 /\ Len(sample[2].X) = 1

\* C21: predict_proba and feature_importances return exactly what the first
\* ensemble member returns, whatever the number of members and whatever the
\* later members return; on an empty ensemble they raise, and predict_proba
\* raises as its first member does when that member is a regressor.
C21_FirstMemberOnly ==
    ("op" \in DOMAIN out /\ out.op \in {"predict_proba", "feature_importances"}) =>
        IF _models = <<>> \/ (out.op = "predict_proba" /\ _models[1].mode = "regression")
        THEN out.st = "raised"
        ELSE /\ out.st = "ok"
             /\ Len(out.members) = Len(_models)
             /\ out.val = out.members[1]

C21_Witness ==
    /\ "op" \in DOMAIN out /\ out.op = "predict_proba"
    /\ out.st = "ok"
    /\ Len(_models) = 2
    /\ out.members[2] # out.members[1]

C21_ImportancesWitness ==
    /\ "op" \in DOMAIN out /\ out.op = "feature_importances"
    /\ out.st = "ok"
    /\ Len(_models) = 2
    /\ out.members[2] # out.members[1]

\* C22: a grid-point evaluation writes nothing but its own entry: while the
\* search runs, under every interleaving, the training data, the subsample,
\* the grid and the orchestrator's fields stay as they are, the entries of
\* the points already evaluated are not touched, the hyperparameters
\* returned for a point are the point's own plus the seed, and the fitness
\* returned for it is the one its own model gave (with a seeded library,
\* the one it gets when evaluated alone).
C22_EvaluationsIsolated ==
    [][ (pc = "search" /\ pc' = "search") =>
            /\ UNCHANGED <<config, num_fits, params, _models, _y_train, search, cur,
                           acc, sample>>
            /\ \A j \in DOMAIN work : work[j].st = "done" => work'[j] = work[j]
            /\ \A j \in DOMAIN work' :
                  work'[j].st = "done" =>
                      /\ work'[j].res.params = SetKey(Grid[j], "random_state", random_seed)
                      /\ work'[j].res.fitness = work'[j].raw
                      /\ oracle # None => work'[j].res.fitness = oracle[1].eval[j] ]_vars

C22_Witness ==
    /\ pc = "search"
    /\ oracle # None
    /\ order.swapped
    /\ \A j \in DOMAIN work : work[j].st = "done"
    /\ work[1].res.fitness # work[2].res.fitness

\* C24: after set_training_data the stored inputs and the stored outputs
\* have the same number of rows, and row k of the one and row k of the
\* other come from the same row of the frames passed, whatever rows were
\* removed, whatever the order of the index and whether or not the target
\* was replaced by codes.
C24_StoredRowsAligned ==
    raw # None =>
        /\ Len(_inputs[1]) = Len(_outputs[1])
        /\ \A k \in DOMAIN _inputs[1] : _inputs[1][k].row = _outputs[1][k].row

\* C25: after set_training_data no stored row has a target that was missing
\* or the empty string in the frame passed, no stored row has a missing
\* feature value, for any number of distinct target values, and the frames
\* passed are as they were.
C25_NoMissingStored ==
    raw # None =>
        /\ \A k \in DOMAIN _outputs[1] :
              raw[1].outputs[_outputs[1][k].row].v \notin {NaN, EmptyString}
        /\ \A k \in DOMAIN _inputs[1] : _inputs[1][k].v # NaN
        /\ raw[1] \in IndexedData

\* the ensemble is the outcome of a fit that returned, on the stored
\* training data
TrainedOnStored ==
    /\ cur # None
    /\ status = "ok"
    /\ _inputs # None
    /\ cur[1].X = Values(_inputs[1])
    /\ cur[1].y = Values(_outputs[1])
    /\ _y_train = Some(cur[1].y)
    /\ Len(_models) = cur[1].nf

ProduceOps == {"produce", "produce_feature_importances", "produce_shap_values"}

\* C23: in every sequence of set_training_data, fit and produce-type calls
\* on a primitive, every produce-type call made once training data is
\* stored gets past its forced fit and works on an ensemble fitted on the
\* data the latest set_training_data stored, and once a fit has returned no
\* fit or produce-type call runs the orchestrator's fit again until
\* set_training_data is called.
C23_ProduceUsesLatestFit ==
    [][ /\ (out' # out /\ "at" \in DOMAIN out' /\ out'.op \in ProduceOps
                        /\ _inputs # None) =>
              (out'.at # "fit" /\ ~_needs_fit' /\ TrainedOnStored')
        /\ ~_needs_fit' => TrainedOnStored'
        /\ (~_needs_fit /\ ~_needs_fit') =>
              UNCHANGED <<_models, _y_train, cur, ncalls, status>> ]_vars

\* the target of the latest set_training_data call has at most two distinct
\* values
Binary == Len(factorize(Values(raw[1].outputs)).uniques) <= 2

\* C26: when the target has at most two distinct values, the stored targets
\* are integer codes that the label map takes back to the values passed, and
\* a produce call returns predictions, each of them one of the target
\* values passed.
C26_ProduceReturnsOriginalLabels ==
    [][ /\ (raw' # None /\ Binary') =>
              \A k \in DOMAIN _outputs'[1] :
                  /\ _outputs'[1][k].v \in 0..1
                  /\ label_map'[1][_outputs'[1][k].v + 1]
                        = raw'[1].outputs[_outputs'[1][k].row].v
        /\ (out' # out /\ "at" \in DOMAIN out' /\ out'.op = "produce"
                        /\ raw' # None /\ Binary') =>
              /\ out'.st = "ok"
              /\ \A k \in DOMAIN out'.val :
                    out'.val[k] \in Range(Values(raw'[1].outputs)) ]_vars

\* C27: the label map produce applies is the one of the latest
\* set_training_data call: the distinct values of its target when there are
\* at most two, and none when there are more.
C27_LabelMapOfLatestCall ==
    raw # None =>
        label_map = IF Binary
                    THEN Some(factorize(Values(raw[1].outputs)).uniques)
                    ELSE None

\* C28: between calls, whenever the ensemble is not empty, the recorded
\* training targets are those of the fit call that built the stored members;
\* a fit call that raises leaves the recorded targets as they were.
C28_TargetsOfStoredMembers ==
    (pc = "idle" /\ _models # <<>>) =>
        \A i \in DOMAIN _models :
            /\ _models[i].born.call = ncalls \/ Raised
            /\ _y_train = Some(_models[i].y)

\* C29: __setstate__ restores what __getstate__ saved: the restored
\* primitive holds the saved ensemble and needs fitting exactly when the
\* saved one did, so a primitive saved after its fit is restored fitted.
C29_RestoreKeepsFitted ==
    [][ (out' # out /\ "at" \in DOMAIN out' /\ out'.op = "__setstate__") =>
            /\ _models' = saved[1].models._models
            /\ _y_train' = saved[1].models._y_train
            /\ _needs_fit' = saved[1].needs_fit ]_vars

\* C30: every TextClassifierPrimitive.fit call that returns has trained the
\* model in that call, on inputs and targets that pair row k with row k: in
\* fast mode on at most FAST_FIT_ROWS of the stored rows, otherwise on all
\* of them, whatever the size of the training set.
C30_FitAlwaysTrains ==
    [][ (out' # out /\ "at" \in DOMAIN out' /\ out'.op = "fit" /\ out'.st = "ok") =>
            /\ out'.trained
            /\ _model' # None
            /\ Len(_model'[1].X) = Len(_model'[1].y)
            /\ \A k \in DOMAIN _model'[1].X : _model'[1].X[k].row = _model'[1].y[k].row
            /\ Range(_model'[1].X) \subseteq Range(_inputs[1])
            /\ IF hyperparams[1].fast
               THEN Len(_model'[1].X) <= FAST_FIT_ROWS
               ELSE _model'[1].X = _inputs[1] ]_vars

====
